---- MODULE Spec2Model ----
(***************************************************************************)
(* computeGCBias_readlen: sampling of genome positions per chunk, per      *)
(* fragment length tabulation of the expected (N_gc) and observed (F_gc)   *)
(* GC histograms, the reduce step that merges the partial histograms, and  *)
(* the ratio table derived from them.                                      *)
(*                                                                         *)
(* Abstractions: chromosome names of the BAM and of the 2bit file are the  *)
(* same strings; dictionary keys str(fragmentLength) are the integers      *)
(* themselves; floats are exact rationals <<numerator, denominator>>; the   *)
(* surfaces csaps fits are drawn from a small family of evaluators.        *)
(***************************************************************************)
EXTENDS Integers, Sequences, FiniteSets, TLC

VARIABLES
    global_vars,   \* the module's global dictionary (2bit, bam, trees, max_reads)
    args,          \* the parsed command line / the arguments of tabulateGCcontent
    sampler,       \* a direct call of getPositionsToSample and what it gave
    pc,            \* where main is: "map", "ratio", "interp", "done", "error"
    pending,       \* chunks of mapReduce not yet handed to a worker
    worker,        \* per pool process: the frame of tabulateGCcontent_worker
    imap_res,      \* partial results returned by workers and not yet merged
    returned,      \* every partial result returned so far, by chunk
    ndict,         \* the merged N_gc dictionary of tabulateGCcontent
    fdict,         \* the merged F_gc dictionary of tabulateGCcontent
    out_data,      \* the tables main hands to to_csv
    files,         \* state of the output files
    run,           \* 1 for the first run on the inputs, 2 for the second
    prev,          \* what the first run produced
    fitted         \* interpolate_ratio_csaps: the two surfaces and scaling_dict

vars == <<global_vars, args, sampler, pc, pending, worker, imap_res, returned,
          ndict, fdict, out_data, files, run, prev, fitted>>

----------------------------------------------------------------------------
(* Bounds of the model *)

\* largest coordinate given to a direct call of the sampler or the worker
MaxCoord == 5
\* largest stepSize of a direct call
MaxStep == 2
\* size of the worker pool
MaxProcessors == 2

\* index of the last GC bin: the arrays have 100 + 1 entries
NumBins == 100

Bins == 0..NumBins

----------------------------------------------------------------------------
(* Generic helpers *)

Range(s) == {s[k] : k \in DOMAIN s}

Min(a, b) == IF a < b THEN a ELSE b

SetMin(S) == CHOOSE x \in S : \A y \in S : x <= y

RECURSIVE SortedSeq(_)
\* np.unique(np.sort(x)) of the elements S: ascending, without duplicates
SortedSeq(S) ==
    IF S = {} THEN <<>>
    ELSE LET m == SetMin(S) IN <<m>> \o SortedSeq(S \ {m})

RECURSIVE SumBins(_, _)
\* np.sum of a histogram over bins 0..g
SumBins(h, g) == IF g < 0 THEN 0 ELSE h[g] + SumBins(h, g - 1)

npsum(h) == SumBins(h, NumBins)

zeros == [g \in Bins |-> 0]

----------------------------------------------------------------------------
(* getPositionsToSample *)

\* np.arange(start, end, stepSize) and range(start, end, stepSize)
arange(start, end, stepSize) ==
    IF end > start
    THEN [k \in 1..((end - start + stepSize - 1) \div stepSize) |->
              start + (k - 1) * stepSize]
    ELSE <<>>

\* GTF.findOverlaps: the intervals [a, b) of the tree that overlap [start, end)
findOverlaps(tree, chrom, start, end) ==
    SelectSeq(tree.chroms[chrom], LAMBDA iv : iv[1] < end /\ iv[2] > start)

\* try: tree.findOverlaps(...) except KeyError: []
overlapsOrEmpty(tree, chrom, start, end) ==
    IF chrom \in DOMAIN tree.chroms
    THEN findOverlaps(tree, chrom, start, end)
    ELSE <<>>

RECURSIVE appendExtra(_, _, _)
\* for intval in extra_match: np.append(positions, range(intval[0], intval[1], stepSize))
appendExtra(positions, extra_match, stepSize) ==
    IF extra_match = <<>> THEN positions
    ELSE appendExtra(positions \o arange(Head(extra_match)[1], Head(extra_match)[2], stepSize),
                     Tail(extra_match), stepSize)

\* keepOutside with the interval's start kept: positions <= intval[0]
keepOutsideOpenStart(positions, intval) ==
    SelectSeq(positions, LAMBDA p : p <= intval[1] \/ p >= intval[2])

\* positions[(positions < intval[0]) | (positions >= intval[1])]
keepOutside(positions, intval) ==
    SelectSeq(positions, LAMBDA p : p < intval[1] \/ p >= intval[2])

RECURSIVE filterOut(_, _)
\* for intval in out_match: drop the positions inside intval
filterOut(positions, out_match) ==
    IF out_match = <<>> THEN positions
    ELSE filterOut(keepOutside(positions, Head(out_match)), Tail(out_match))

\* withExtra without the np.unique(np.sort(...)) line
withExtraUnsorted(chrom, start, end, stepSize) ==
    LET base == arange(start, end, stepSize)
        extra_tree == global_vars.extra_sampling_file
    IN  IF extra_tree.present
        THEN appendExtra(base, overlapsOrEmpty(extra_tree, chrom, start, end), stepSize)
        ELSE base

\* the positions after the extra sampling block, before the filter block
withExtra(chrom, start, end, stepSize) ==
    LET base == arange(start, end, stepSize)
        extra_tree == global_vars.extra_sampling_file
    IN  IF extra_tree.present
        THEN SortedSeq(Range(appendExtra(base,
                                         overlapsOrEmpty(extra_tree, chrom, start, end),
                                         stepSize)))
        ELSE base

getPositionsToSample(chrom, start, end, stepSize) ==
    LET positions == withExtra(chrom, start, end, stepSize)
        filter_out_tree == global_vars.filter_out
    IN  IF filter_out_tree.present
        THEN filterOut(positions, overlapsOrEmpty(filter_out_tree, chrom, start, end))
        ELSE positions

----------------------------------------------------------------------------
(* The sequence and alignment providers *)

\* tbit.chroms(chromNameBit): the chromosome's length
chroms(chrom) == Len(global_vars.tbit[chrom])

\* number of G and C bases in [s, e) of the chromosome
RECURSIVE countGC(_, _, _)
countGC(chrom, s, e) ==
    IF s >= e THEN 0
    ELSE (IF global_vars.tbit[chrom][s + 1] \in {"G", "C"} THEN 1 ELSE 0)
         + countGC(chrom, s + 1, e)

\* getGC_content raises when the interval holds ambiguous bases
gcRaises(chrom, s, e) ==
    \E k \in s..(e - 1) : global_vars.tbit[chrom][k + 1] = "N"

\* round(gc * 100, 2) in hundredths of a percent, gc = count / length
roundHundredths(count, length) ==
    LET q == (count * 10000) \div length
        r == (count * 10000) % length
    IN  IF 2 * r > length THEN q + 1
        ELSE IF 2 * r = length /\ q % 2 = 1 THEN q + 1
        ELSE q

\* the values roundGCLenghtBias can return: gc_int + binomial(1, gc_frac)
roundGCLenghtBias(count, length) ==
    LET h == roundHundredths(count, length)
        gc_int == h \div 100
        gc_frac == h % 100
    IN  IF gc_frac = 0 THEN {gc_int} ELSE {gc_int, gc_int + 1}

\* bam.fetch(chrom, i, i + 1): the reads of the chromosome that cover position i
fetch(chrom, i) ==
    SelectSeq(global_vars.bam,
              LAMBDA read : read.chrom = chrom /\ read.pos <= i
                            /\ i < read.pos + read.query_length)

abs(x) == IF x < 0 THEN -x ELSE x

\* r_len without the test that the mate lies downstream
r_lenAnyMate(read) ==
    IF read.is_proper_pair
    THEN abs(read.template_length)
    ELSE IF ~read.is_paired THEN read.query_length
    ELSE 0

\* r_len of one fetched read
r_len(read) ==
    IF read.is_proper_pair /\ read.next_reference_start > read.pos
    THEN abs(read.template_length)
    ELSE IF ~read.is_paired THEN read.query_length
    ELSE 0

\* num_reads = len(read_lst)
num_reads(chrom, i, fragmentLength) ==
    Len(SelectSeq(fetch(chrom, i),
                  LAMBDA read : read.pos = i /\ r_len(read) = fragmentLength))

----------------------------------------------------------------------------
(* tabulateGCcontent_worker, one frame per pool process *)

EmptyDict == [k \in {} |-> zeros]

\* d[key] = value
setitem(d, key, value) ==
    [k \in DOMAIN d \cup {key} |-> IF k = key THEN value ELSE d[k]]

IdleFrame ==
    [state |-> "idle", chunk |-> <<"", 0, 0>>, li |-> 0, positions |-> <<>>,
     index |-> 0, broke |-> FALSE, sub_n_gc |-> zeros, subF_gc |-> zeros,
     sub_Ndict |-> EmptyDict, sub_Fdict |-> EmptyDict, peak |-> 0]

Processes == 1..MaxProcessors

fragmentLengthOf(f) == args.fragment_lengths[f.li]

\* rangeRaises with the comparison turned around
rangeRaisesSwapped(start, end) == end > start

\* if start > end: raise NameError
rangeRaises(start, end) == start > end

\* the worker is entered with a chunk: the range check, then the handles are opened
Dispatch(w, c) ==
    /\ pc = "map"
    /\ w <= args.numberOfProcessors
    /\ worker[w].state = "idle"
    /\ c \in pending
    /\ pending' = pending \ {c}
    /\ \E opened \in BOOLEAN :
         IF rangeRaises(c[2], c[3]) \/ ~opened
         THEN /\ pc' = "error"
              /\ worker' = worker
         ELSE /\ pc' = pc
              /\ worker' = [worker EXCEPT ![w] =
                               [IdleFrame EXCEPT !.state = "for_len", !.chunk = c, !.li = 1]]
    /\ UNCHANGED <<global_vars, args, sampler, imap_res, returned, ndict, fdict,
                   out_data, files, run, prev, fitted>>

\* head of "for fragmentLength in fragmentLengths": fresh arrays, positions to sample
BeginLength(w) ==
    LET f == worker[w] IN
    /\ pc = "map"
    /\ f.state = "for_len"
    /\ f.li <= Len(args.fragment_lengths)
    /\ worker' = [worker EXCEPT ![w] =
                     [f EXCEPT !.state = "for_pos",
                               !.sub_n_gc = zeros,
                               !.subF_gc = zeros,
                               !.positions = getPositionsToSample(f.chunk[1], f.chunk[2],
                                                 f.chunk[3] - fragmentLengthOf(f),
                                                 args.stepSize),
                               !.index = 1,
                               !.broke = FALSE]]
    /\ UNCHANGED <<global_vars, args, sampler, pc, pending, imap_res, returned,
                   ndict, fdict, out_data, files, run, prev, fitted>>

\* loopBody with the cap tested by > instead of >=
loopBodyStrictCap(f, gc) ==
    LET fragmentLength == args.fragment_lengths[f.li]
        chrom == f.chunk[1]
        i == f.positions[f.index]
    IN  IF i + fragmentLength > chroms(chrom)
        THEN [f EXCEPT !.broke = TRUE]
        ELSE IF gcRaises(chrom, i, i + fragmentLength)
        THEN [f EXCEPT !.index = f.index + 1]
        ELSE IF num_reads(chrom, i, fragmentLength) > global_vars.max_reads[fragmentLength]
        THEN [f EXCEPT !.peak = f.peak + 1, !.index = f.index + 1]
        ELSE [f EXCEPT !.sub_n_gc[gc] = @ + 1,
                       !.subF_gc[gc] = @ + num_reads(chrom, i, fragmentLength),
                       !.index = f.index + 1]

\* loopBody without the "continue" of the except branch
loopBodyNoContinue(f, gc) ==
    LET fragmentLength == args.fragment_lengths[f.li]
        chrom == f.chunk[1]
        i == f.positions[f.index]
    IN  IF i + fragmentLength > chroms(chrom)
        THEN [f EXCEPT !.broke = TRUE]
        ELSE IF num_reads(chrom, i, fragmentLength) >= global_vars.max_reads[fragmentLength]
        THEN [f EXCEPT !.peak = f.peak + 1, !.index = f.index + 1]
        ELSE [f EXCEPT !.sub_n_gc[gc] = @ + 1,
                       !.subF_gc[gc] = @ + num_reads(chrom, i, fragmentLength),
                       !.index = f.index + 1]

\* loopBody with the reads of a capped position still added to subF_gc
loopBodyCountsPeak(f, gc) ==
    LET fragmentLength == args.fragment_lengths[f.li]
        chrom == f.chunk[1]
        i == f.positions[f.index]
    IN  IF i + fragmentLength > chroms(chrom)
        THEN [f EXCEPT !.broke = TRUE]
        ELSE IF gcRaises(chrom, i, i + fragmentLength)
        THEN [f EXCEPT !.index = f.index + 1]
        ELSE IF num_reads(chrom, i, fragmentLength) >= global_vars.max_reads[fragmentLength]
        THEN [f EXCEPT !.peak = f.peak + 1,
                       !.subF_gc[gc] = @ + num_reads(chrom, i, fragmentLength),
                       !.index = f.index + 1]
        ELSE [f EXCEPT !.sub_n_gc[gc] = @ + 1,
                       !.subF_gc[gc] = @ + num_reads(chrom, i, fragmentLength),
                       !.index = f.index + 1]

\* one iteration of "for index in range(len(positions_to_sample))"
loopBody(f, gc) ==
    LET fragmentLength == fragmentLengthOf(f)
        chrom == f.chunk[1]
        i == f.positions[f.index]
    IN  IF i + fragmentLength > chroms(chrom)
        THEN [f EXCEPT !.broke = TRUE]
        ELSE IF gcRaises(chrom, i, i + fragmentLength)
        THEN [f EXCEPT !.index = f.index + 1]
        ELSE IF num_reads(chrom, i, fragmentLength) >= global_vars.max_reads[fragmentLength]
        THEN [f EXCEPT !.peak = f.peak + 1, !.index = f.index + 1]
        ELSE [f EXCEPT !.sub_n_gc[gc] = @ + 1,
                       !.subF_gc[gc] = @ + num_reads(chrom, i, fragmentLength),
                       !.index = f.index + 1]

\* the values gc can take at the current position (one value when it is not used)
gcChoices(f) ==
    LET fragmentLength == fragmentLengthOf(f)
        chrom == f.chunk[1]
        i == f.positions[f.index]
    IN  IF i + fragmentLength > chroms(chrom) \/ gcRaises(chrom, i, i + fragmentLength)
        THEN {0}
        ELSE roundGCLenghtBias(countGC(chrom, i, i + fragmentLength), fragmentLength)

Step(w) ==
    LET f == worker[w] IN
    /\ pc = "map"
    /\ f.state = "for_pos"
    /\ ~f.broke
    /\ f.index <= Len(f.positions)
    /\ \E gc \in gcChoices(f) :
         worker' = [worker EXCEPT ![w] = loopBody(f, gc)]
    /\ UNCHANGED <<global_vars, args, sampler, pc, pending, imap_res, returned,
                   ndict, fdict, out_data, files, run, prev, fitted>>

\* after the loop: sub_Ndict[str(fragmentLength)] = sub_n_gc, likewise sub_Fdict
EndLength(w) ==
    LET f == worker[w] IN
    /\ pc = "map"
    /\ f.state = "for_pos"
    /\ f.broke \/ f.index > Len(f.positions)
    /\ worker' = [worker EXCEPT ![w] =
                     [f EXCEPT !.state = "for_len",
                               !.sub_Ndict = setitem(f.sub_Ndict, fragmentLengthOf(f), f.sub_n_gc),
                               !.sub_Fdict = setitem(f.sub_Fdict, fragmentLengthOf(f), f.subF_gc),
                               !.li = f.li + 1]]
    /\ UNCHANGED <<global_vars, args, sampler, pc, pending, imap_res, returned,
                   ndict, fdict, out_data, files, run, prev, fitted>>

\* return sub_Ndict, sub_Fdict
Return(w) ==
    LET f == worker[w]
        res == [chunk |-> f.chunk, subN_gc |-> f.sub_Ndict, subF_gc |-> f.sub_Fdict]
    IN
    /\ pc = "map"
    /\ f.state = "for_len"
    /\ f.li > Len(args.fragment_lengths)
    /\ imap_res' = imap_res \cup {res}
    /\ returned' = returned \cup {res}
    /\ worker' = [worker EXCEPT ![w] = IdleFrame]
    /\ UNCHANGED <<global_vars, args, sampler, pc, pending, ndict, fdict,
                   out_data, files, run, prev, fitted>>

----------------------------------------------------------------------------
(* mapReduce and the reduce loop of tabulateGCcontent *)

\* the chunks of one chromosome: consecutive, genomeChunkLength long, the last truncated
chunksOf(chrom, size, genomeChunkLength) ==
    {<<chrom, k * genomeChunkLength, Min(size, (k + 1) * genomeChunkLength)>> :
        k \in 0..((size + genomeChunkLength - 1) \div genomeChunkLength - 1)}

\* the tasks mapReduce makes of chrom_sizes
mapReduce(tbit, genomeChunkLength) ==
    UNION {chunksOf(chrom, Len(tbit[chrom]), genomeChunkLength) : chrom \in DOMAIN tbit}

\* addGet that keeps the incoming array instead of adding it
addGetOverwrite(d, sub, k) ==
    IF k \in DOMAIN sub THEN sub[k] ELSE d[k]

\* d.get(k, 0) + sub.get(k, 0) for a key k of either dictionary
addGet(d, sub, k) ==
    IF k \notin DOMAIN d THEN sub[k]
    ELSE IF k \notin DOMAIN sub THEN d[k]
    ELSE [g \in Bins |-> d[k][g] + sub[k][g]]

\* {k: d.get(k, 0) + sub.get(k, 0) for k in set(d) | set(sub)}
mergeDict(d, sub) ==
    [k \in DOMAIN d \cup DOMAIN sub |-> addGet(d, sub, k)]

allReturned ==
    /\ pending = {}
    /\ \A w \in Processes : worker[w].state = "idle"

\* one iteration of "for subN_gc, subF_gc in imap_res"
Merge(res) ==
    /\ pc = "map"
    /\ allReturned
    /\ res \in imap_res
    /\ ndict' = mergeDict(ndict, res.subN_gc)
    /\ fdict' = mergeDict(fdict, res.subF_gc)
    /\ imap_res' = imap_res \ {res}
    /\ UNCHANGED <<global_vars, args, sampler, pc, pending, worker, returned,
                   out_data, files, run, prev, fitted>>

\* the loop is over: the data frame is built and returned to main
BuildData ==
    /\ pc = "map"
    /\ allReturned
    /\ imap_res = {}
    /\ pc' = "ratio"
    /\ UNCHANGED <<global_vars, args, sampler, pending, worker, imap_res, returned,
                   ndict, fdict, out_data, files, run, prev, fitted>>

----------------------------------------------------------------------------
(* get_ratio and the end of main *)

RECURSIVE gcd(_, _)
gcd(a, b) == IF b = 0 THEN a ELSE gcd(b, a % b)

\* the rational num / den in lowest terms
frac(num, den) == <<num \div gcd(num, den), den \div gcd(num, den)>>

One == <<1, 1>>

\* float(np.sum(n_tmp)) / float(np.sum(f_tmp)) raises ZeroDivisionError
scalingRaises(N_GC, F_GC) ==
    \E i \in DOMAIN N_GC : npsum(F_GC[i]) = 0

\* float(f_gc_t[x]) / n_gc_t[x] * scaling if n_gc_t[x] and f_gc_t[x] > 0 else 1
ratioCell(n_gc_t, f_gc_t, x) ==
    IF n_gc_t[x] # 0 /\ f_gc_t[x] > 0
    THEN frac(f_gc_t[x] * npsum(n_gc_t), n_gc_t[x] * npsum(f_gc_t))
    ELSE One

get_ratio(N_GC, F_GC) ==
    [i \in DOMAIN N_GC |-> [x \in Bins |-> ratioCell(N_GC[i], F_GC[i], x)]]

NoData == [kind |-> "none", N_gc |-> EmptyDict, F_gc |-> EmptyDict, R_gc |-> <<>>]

\* the fit of the two surfaces fails on fewer than two sampled fragment lengths
fitRaises(N_GC) == Cardinality(DOMAIN N_GC) < 2

\* data.to_csv(args.MeasurementOutput.name) of the interpolating branch
SaveMeasurement ==
    /\ pc = "ratio"
    /\ args.interpolate
    /\ pc' = "interp"
    /\ files' = IF args.MeasurementOutput
                THEN [files EXCEPT !.MeasurementOutput = "written"]
                ELSE files
    /\ UNCHANGED <<global_vars, args, sampler, pending, worker, imap_res, returned,
                   ndict, fdict, out_data, run, prev, fitted>>

----------------------------------------------------------------------------
(* interpolate_ratio_csaps                                                 *)
(* A fitted surface is a callable of csaps; the model keeps it as a record *)
(* [level, slope, den, bins]: at (readlen, gc) it evaluates to the float   *)
(* (level + slope * readlen) / den when gc is in bins and to 0 elsewhere.  *)

NoFit == [state |-> "none", N_f2 |-> <<>>, F_f2 |-> <<>>, scaling_dict |-> <<>>]

surface(level, slope, den, bins) ==
    [level |-> level, slope |-> slope, den |-> den, bins |-> bins]

\* the fit of a table that is zero everywhere
ZeroSurface == surface(0, 0, 1, {})

\* surfaces a fit of a table with counts can give: whole and fractional values,
\* constant and growing with the fragment length
Surfaces ==
    { surface(4, 0, 2, {0, 50, 100}),
      surface(1, 1, 2, {50, 100}),
      surface(-1, 1, 1, {0, 100}) }

\* csaps([readlen, gc], table): the smoother is linear in the data, so a table of
\* zeros gives the zero surface
csaps(table) ==
    IF \A k \in DOMAIN table : table[k] = zeros THEN {ZeroSurface} ELSE Surfaces

\* numerator of f2([readlen, gc]) over the surface's denominator
evalNum(f2, readlen, gc) ==
    IF gc \in f2.bins THEN f2.level + f2.slope * readlen ELSE 0

\* numerator of np.sum(f2([readlen, N_GC_gc])) over the surface's denominator
rowSumNum(f2, readlen) ==
    npsum([gc \in Bins |-> evalNum(f2, readlen, gc)])

\* int(x) and x.astype(int) of the float num / den, den > 0: toward zero
pyint(num, den) ==
    IF num >= 0 THEN num \div den ELSE -((-num) \div den)

\* np.nanmin / np.nanmax of N_GC.index
indexMin(N_GC) == CHOOSE k \in DOMAIN N_GC : \A j \in DOMAIN N_GC : k <= j

indexMax(N_GC) == CHOOSE k \in DOMAIN N_GC : \A j \in DOMAIN N_GC : k >= j

\* np.arange(N_GC_min, N_GC_max + 1, 1)
denseLengths(N_GC) == indexMin(N_GC)..indexMax(N_GC)

\* int(np.sum(N_tmp) / np.sum(F_tmp)) raises: the quotient is nan or inf
scalingDictRaises(N_f2, F_f2, lengths) ==
    \E i \in lengths : rowSumNum(F_f2, i) = 0

\* scaling_dict[i] = int(np.sum(N_tmp) / np.sum(F_tmp))
scalingOf(N_f2, F_f2, i) ==
    LET num == rowSumNum(N_f2, i) * F_f2.den
        den == N_f2.den * rowSumNum(F_f2, i)
    IN  IF den > 0 THEN pyint(num, den) ELSE pyint(-num, -den)

\* int(N_f2(x)), int(F_f2(x))
denseCell(f2, readlen, gc) == pyint(evalNum(f2, readlen, gc), f2.den)

\* ratio of one dense point x = [readlen, gc]
denseRatio(N_f2, F_f2, scaling, readlen, gc) ==
    IF denseCell(N_f2, readlen, gc) > 0 /\ denseCell(F_f2, readlen, gc) > 0
    THEN frac(denseCell(F_f2, readlen, gc) * scaling, denseCell(N_f2, readlen, gc))
    ELSE One

\* the three dense tables interpolate_ratio_csaps returns
interpolate_ratio_csaps(N_GC, N_f2, F_f2, scaling_dict) ==
    [kind |-> "interpolated",
     N_gc |-> [i \in denseLengths(N_GC) |-> [gc \in Bins |-> denseCell(N_f2, i, gc)]],
     F_gc |-> [i \in denseLengths(N_GC) |-> [gc \in Bins |-> denseCell(F_f2, i, gc)]],
     R_gc |-> [i \in denseLengths(N_GC) |->
                  [gc \in Bins |-> denseRatio(N_f2, F_f2, scaling_dict[i], i, gc)]]]

\* r_data = interpolate_ratio_csaps(data); r_data.to_csv(GCbiasFrequenciesFile)
Interpolate ==
    /\ pc = "interp"
    /\ IF fitRaises(ndict)
       THEN /\ pc' = "error"
            /\ UNCHANGED <<out_data, files, fitted>>
       ELSE \E N_f2 \in csaps(ndict), F_f2 \in csaps(fdict) :
              IF scalingDictRaises(N_f2, F_f2, denseLengths(ndict))
              THEN /\ pc' = "error"
                   /\ fitted' = [state |-> "fitted", N_f2 |-> N_f2, F_f2 |-> F_f2,
                                 scaling_dict |-> <<>>]
                   /\ UNCHANGED <<out_data, files>>
              ELSE LET scaling_dict == [i \in denseLengths(ndict) |->
                                           scalingOf(N_f2, F_f2, i)]
                   IN  /\ pc' = "done"
                       /\ fitted' = [state |-> "fitted", N_f2 |-> N_f2, F_f2 |-> F_f2,
                                     scaling_dict |-> scaling_dict]
                       /\ out_data' = interpolate_ratio_csaps(ndict, N_f2, F_f2,
                                                              scaling_dict)
                       /\ files' = [files EXCEPT !.GCbiasFrequenciesFile = "written"]
    /\ UNCHANGED <<global_vars, args, sampler, pending, worker, imap_res, returned,
                   ndict, fdict, run, prev>>

\* r_data = get_ratio(data); data.append(r_data).to_csv(GCbiasFrequenciesFile)
Direct ==
    /\ pc = "ratio"
    /\ ~args.interpolate
    /\ IF scalingRaises(ndict, fdict)
       THEN /\ pc' = "error"
            /\ UNCHANGED <<out_data, files>>
       ELSE /\ pc' = "done"
            /\ out_data' = [kind |-> "direct", N_gc |-> ndict, F_gc |-> fdict,
                            R_gc |-> get_ratio(ndict, fdict)]
            /\ files' = [files EXCEPT !.GCbiasFrequenciesFile = "written"]
    /\ UNCHANGED <<global_vars, args, sampler, pending, worker, imap_res, returned,
                   ndict, fdict, run, prev, fitted>>

----------------------------------------------------------------------------
(* A direct call of getPositionsToSample *)

NoCall == [state |-> "idle", chrom |-> "", start |-> 0, end |-> 0, stepSize |-> 1,
           positions |-> <<>>]

CallSampler ==
    /\ sampler.state = "called"
    /\ sampler' = [sampler EXCEPT
                      !.state = "returned",
                      !.positions = getPositionsToSample(sampler.chrom, sampler.start,
                                                         sampler.end, sampler.stepSize)]
    /\ UNCHANGED <<global_vars, args, pc, pending, worker, imap_res, returned,
                   ndict, fdict, out_data, files, run, prev, fitted>>

----------------------------------------------------------------------------
(* Inputs *)

unpaired(chrom, pos, query_length) ==
    [chrom |-> chrom, pos |-> pos, is_paired |-> FALSE, is_proper_pair |-> FALSE,
     next_reference_start |-> 0, template_length |-> 0, query_length |-> query_length]

paired(chrom, pos, proper, next_reference_start, template_length) ==
    [chrom |-> chrom, pos |-> pos, is_paired |-> TRUE, is_proper_pair |-> proper,
     next_reference_start |-> next_reference_start,
     template_length |-> template_length, query_length |-> 1]

NoTree == [present |-> FALSE, chroms |-> [c \in {} |-> <<>>]]

tree(chrom, intervals) == [present |-> TRUE, chroms |-> [c \in {chrom} |-> intervals]]

Genomes ==
    { [c \in {"chr1"} |-> <<"G", "C", "A", "T", "C", "G">>],
      [c \in {"chr1", "chr2"} |->
          IF c = "chr1" THEN <<"G", "A", "N", "C">> ELSE <<"C", "C", "A">>] }

ReadSets ==
    { <<>>,
      << unpaired("chr1", 0, 2), unpaired("chr1", 0, 2), unpaired("chr1", 1, 2),
         unpaired("chr1", 2, 2), unpaired("chr1", 0, 3),
         paired("chr1", 1, TRUE, 3, 3), paired("chr1", 1, FALSE, 3, 3),
         paired("chr1", 2, TRUE, 1, -3), paired("chr1", 3, TRUE, 4, -2),
         unpaired("chr2", 0, 2), paired("chr2", 0, TRUE, 2, 3) >> }

ExtraTrees == {NoTree, tree("chr1", << <<1, 6>> >>)}

FilterTrees == {NoTree, tree("chr1", << <<2, 3>> >>)}

\* max_reads per fragment length, as the Poisson quantile gives them
MaxReadsDicts == { [l \in 1..4 |-> 2], [l \in 1..4 |-> 5] }

StepSizes == 1..MaxStep

ChunkSizes == {4, 6}

ProcessorCounts == 1..MaxProcessors

\* (minLength, maxLength, lengthStep, interpolate, MeasurementOutput given)
Modes ==
    { <<2, 3, 1, FALSE, FALSE>>, <<2, 3, 1, FALSE, TRUE>>, <<2, 3, 1, TRUE, TRUE>>,
      <<2, 3, 2, TRUE, TRUE>>, <<1, 4, 2, TRUE, FALSE>> }

\* fragment_lengths = np.arange(minLength, maxLength + 1, length_step)
fragment_lengths(minLength, maxLength, lengthStep, interpolate) ==
    arange(minLength, maxLength + 1, IF interpolate THEN lengthStep ELSE 1)

mainArgs(la, interpolate, measurement, stepSize, chunkSize, processors) ==
    [minLength |-> la[1], maxLength |-> la[2], lengthStep |-> la[3],
     interpolate |-> interpolate, MeasurementOutput |-> measurement,
     fragment_lengths |-> fragment_lengths(la[1], la[2], la[3], interpolate),
     stepSize |-> stepSize, chunkSize |-> chunkSize,
     numberOfProcessors |-> processors]

\* argparse.FileType('w') opens, and so empties, each output file that is named
openedFiles(measurement) ==
    [GCbiasFrequenciesFile |-> "empty",
     MeasurementOutput |-> IF measurement THEN "empty" ELSE "absent"]

NoPrev == [pc |-> "none", chunkSize |-> 0, ndict |-> EmptyDict, fdict |-> EmptyDict,
           out_data |-> NoData]

\* the state main is in when it calls tabulateGCcontent
Init ==
    /\ \E tbit \in Genomes, bam \in ReadSets, ex \in ExtraTrees, fo \in FilterTrees,
          mr \in MaxReadsDicts :
         \* the alignment file without reads is run without interval trees
         /\ bam = <<>> => (~ex.present /\ ~fo.present)
         /\ global_vars = [tbit |-> tbit, bam |-> bam, extra_sampling_file |-> ex,
                           filter_out |-> fo, max_reads |-> mr]
    /\ \E m \in Modes, st \in StepSizes, cs \in ChunkSizes, np \in ProcessorCounts :
         args = mainArgs(<<m[1], m[2], m[3]>>, m[4], m[5], st, cs, np)
    /\ sampler = NoCall
    /\ pc = "map"
    /\ pending = mapReduce(global_vars.tbit, args.chunkSize)
    /\ worker = [w \in Processes |-> IdleFrame]
    /\ imap_res = {}
    /\ returned = {}
    /\ ndict = EmptyDict
    /\ fdict = EmptyDict
    /\ out_data = NoData
    /\ files = openedFiles(args.MeasurementOutput)
    /\ run = 1
    /\ prev = NoPrev
    /\ fitted = NoFit

Next ==
    \/ \E w \in Processes, c \in pending : Dispatch(w, c)
    \/ \E w \in Processes : BeginLength(w)
    \/ \E w \in Processes : Step(w)
    \/ \E w \in Processes : EndLength(w)
    \/ \E w \in Processes : Return(w)
    \/ \E res \in imap_res : Merge(res)
    \/ BuildData
    \/ SaveMeasurement
    \/ Interpolate
    \/ Direct

Spec == Init /\ [][Next]_vars

----------------------------------------------------------------------------
(* Running main a second time on the same inputs *)

\* the second run may use another pool size and another genomeChunkLength
Rerun(cs, np) ==
    /\ pc = "done"
    /\ run = 1
    /\ run' = 2
    /\ prev' = [pc |-> pc, chunkSize |-> args.chunkSize, ndict |-> ndict,
                fdict |-> fdict, out_data |-> out_data]
    /\ args' = [args EXCEPT !.chunkSize = cs, !.numberOfProcessors = np]
    /\ pc' = "map"
    /\ pending' = mapReduce(global_vars.tbit, cs)
    /\ worker' = [w \in Processes |-> IdleFrame]
    /\ imap_res' = {}
    /\ returned' = {}
    /\ ndict' = EmptyDict
    /\ fdict' = EmptyDict
    /\ out_data' = NoData
    /\ files' = openedFiles(args.MeasurementOutput)
    /\ fitted' = NoFit
    /\ UNCHANGED <<global_vars, sampler>>

InitTwoRuns ==
    /\ Init
    /\ global_vars.bam # <<>>
    /\ ~global_vars.filter_out.present
    /\ global_vars.max_reads[1] = 5
    /\ ~args.interpolate
    /\ ~args.MeasurementOutput
    /\ args.lengthStep = 1

NextTwoRuns ==
    \/ \E w \in Processes, c \in pending : Dispatch(w, c)
    \/ \E w \in Processes : BeginLength(w)
    \/ \E w \in Processes : Step(w)
    \/ \E w \in Processes : EndLength(w)
    \/ \E w \in Processes : Return(w)
    \/ \E res \in imap_res : Merge(res)
    \/ BuildData
    \/ Direct
    \/ \E cs \in ChunkSizes, np \in ProcessorCounts : Rerun(cs, np)

SpecTwoRuns == InitTwoRuns /\ [][NextTwoRuns]_vars

----------------------------------------------------------------------------
(* Direct calls of the sampler and of the worker, as the doctests make them *)

SamplerExtraTrees ==
    { NoTree, tree("chr1", << <<1, 4>> >>), tree("chr1", << <<0, 2>>, <<3, 6>> >>),
      tree("chr2", << <<0, 3>> >>) }

SamplerFilterTrees ==
    { NoTree, tree("chr1", << <<2, 3>> >>), tree("chr1", << <<0, 1>>, <<2, 5>> >>),
      tree("chr2", << <<0, 3>> >>) }

Coords == 0..MaxCoord

InitSampler ==
    /\ \E tbit \in Genomes, bam \in ReadSets, ex \in SamplerExtraTrees,
          fo \in SamplerFilterTrees, mr \in MaxReadsDicts :
         /\ DOMAIN tbit = {"chr1"}
         /\ bam # <<>>
         /\ mr[1] = 2
         /\ global_vars = [tbit |-> tbit, bam |-> bam, extra_sampling_file |-> ex,
                           filter_out |-> fo, max_reads |-> mr]
    /\ \E start \in Coords, end \in Coords, st \in StepSizes :
         /\ args = mainArgs(<<2, 3, 1>>, FALSE, FALSE, st, 6, 1)
         /\ sampler = [NoCall EXCEPT !.state = "called", !.chrom = "chr1",
                                     !.start = start, !.end = end, !.stepSize = st]
         /\ pending = {<<"chr1", start, end>>}
    /\ pc = "map"
    /\ worker = [w \in Processes |-> IdleFrame]
    /\ imap_res = {}
    /\ returned = {}
    /\ ndict = EmptyDict
    /\ fdict = EmptyDict
    /\ out_data = NoData
    /\ files = openedFiles(FALSE)
    /\ run = 1
    /\ prev = NoPrev
    /\ fitted = NoFit

NextSampler ==
    \/ CallSampler
    \/ \E c \in pending : Dispatch(1, c)
    \/ BeginLength(1)
    \/ Step(1)
    \/ EndLength(1)
    \/ Return(1)

SpecSampler == InitSampler /\ [][NextSampler]_vars

----------------------------------------------------------------------------
(* Properties *)

RECURSIVE sumOver(_, _, _, _)
\* the sum over the partial results S of the count at (key k, bin g) of dictionary d
sumOver(S, d, k, g) ==
    IF S = {} THEN 0
    ELSE LET r == CHOOSE x \in S : TRUE
         IN  (IF k \in DOMAIN r[d] THEN r[d][k][g] ELSE 0) + sumOver(S \ {r}, d, k, g)

\* the elementwise sum of dictionary d over the partial results S
sumOfPartials(S, d) ==
    [k \in UNION {DOMAIN r[d] : r \in S} |-> [g \in Bins |-> sumOver(S, d, k, g)]]

\* the partial results the reduce loop has consumed
mergedSoFar == returned \ imap_res

\* the reduce loop has consumed every chunk's result
reduced ==
    /\ imap_res = {}
    /\ {r.chunk : r \in returned} = mapReduce(global_vars.tbit, args.chunkSize)

\* C1: whatever the order in which the reduce loop takes the partial results,
\* the global N_gc and F_gc are the elementwise sums of the partial dictionaries
\* it has consumed, so after the loop they are the sums over all chunks.
C1_MergeIsElementwiseSum ==
    /\ ndict = sumOfPartials(mergedSoFar, "subN_gc")
    /\ fdict = sumOfPartials(mergedSoFar, "subF_gc")

\* C1 witness: the loop is over, several chunks gave results and two of them
\* count in the same (fragment length, GC bin)
C1_Witness ==
    /\ pc = "ratio"
    /\ reduced
    /\ \E r1 \in returned, r2 \in returned :
         /\ r1 # r2
         /\ \E k \in DOMAIN r1.subN_gc, g \in Bins :
              /\ r1.subN_gc[k][g] > 0 /\ r2.subN_gc[k][g] > 0
              /\ r1.subF_gc[k][g] > 0 /\ r2.subF_gc[k][g] > 0

\* a fragment length whose GC percentages are all whole numbers: no stochastic rounding
exactLength(length) ==
    \A count \in 0..length : roundHundredths(count, length) % 100 = 0

\* C2: a second run on the same genome, alignments, stride and fragment lengths
\* with any genomeChunkLength merges to the same histograms as the first (stated
\* for the fragment lengths that leave the GC rounding nothing to draw).
C2_ChunkLengthIndependent ==
    (run = 2 /\ reduced /\ pc = "ratio") =>
        \A k \in DOMAIN ndict :
            exactLength(k) => (ndict[k] = prev.ndict[k] /\ fdict[k] = prev.fdict[k])

\* C3: a second run on the same inputs with the same configuration (the pool size
\* apart) writes the same histograms and the same ratio table as the first.
C3_RunsReproducible ==
    (run = 2 /\ pc = "done" /\ args.chunkSize = prev.chunkSize) =>
        /\ ndict = prev.ndict
        /\ fdict = prev.fdict
        /\ out_data = prev.out_data

\* the worker's frame is at a position whose read count meets the cap
atPeak(f) ==
    /\ f.state = "for_pos"
    /\ ~f.broke
    /\ f.index <= Len(f.positions)
    /\ num_reads(f.chunk[1], f.positions[f.index], fragmentLengthOf(f))
           >= global_vars.max_reads[fragmentLengthOf(f)]

\* the position passes the chromosome-end guard and its GC can be computed
reachesCount(f) ==
    /\ f.positions[f.index] + fragmentLengthOf(f) <= chroms(f.chunk[1])
    /\ ~gcRaises(f.chunk[1], f.positions[f.index],
                 f.positions[f.index] + fragmentLengthOf(f))

\* C4: a loop iteration at a position with num_reads >= max_reads[L] leaves
\* N_gc and F_gc of the fragment length (and the dictionaries) as they were;
\* when the iteration reaches the cap test, peak grows by one and the loop goes
\* on with the next position.
C4_PeakSkipsHistograms ==
    [][\A w \in Processes :
          (pc = "map" /\ atPeak(worker[w]) /\ worker'[w] # worker[w]) =>
              /\ worker'[w].sub_n_gc = worker[w].sub_n_gc
              /\ worker'[w].subF_gc = worker[w].subF_gc
              /\ worker'[w].sub_Ndict = worker[w].sub_Ndict
              /\ worker'[w].sub_Fdict = worker[w].sub_Fdict
              /\ reachesCount(worker[w]) =>
                    /\ worker'[w].peak = worker[w].peak + 1
                    /\ worker'[w].index = worker[w].index + 1
                    /\ worker'[w].state = "for_pos"
                    /\ ~worker'[w].broke]_vars

\* C4 witness: the iteration before this one was at a capped position and the
\* loop is now at the next position
C4_Witness ==
    \E w \in Processes :
        LET f == worker[w] IN
        /\ f.state = "for_pos"
        /\ f.peak > 0
        /\ f.index > 1
        /\ f.index <= Len(f.positions)
        /\ atPeak([f EXCEPT !.index = f.index - 1])
        /\ reachesCount([f EXCEPT !.index = f.index - 1])

\* the positions the worker gets for a chunk and a fragment length
positionsOf(c, length) ==
    getPositionsToSample(c[1], c[2], c[3] - length, args.stepSize)

\* indices of the positions of chunk c that count for the fragment length: reached
\* before the guard stops the loop, GC computed, read count below the cap
countedAt(c, length) ==
    LET pos == positionsOf(c, length) IN
    {k \in DOMAIN pos :
        /\ \A j \in 1..k : pos[j] + length <= chroms(c[1])
        /\ ~gcRaises(c[1], pos[k], pos[k] + length)
        /\ num_reads(c[1], pos[k], length) < global_vars.max_reads[length]}

\* the (chunk, position) pairs that count for the fragment length
countedPairs(length) ==
    UNION {{<<c, positionsOf(c, length)[k]>> : k \in countedAt(c, length)} :
              c \in mapReduce(global_vars.tbit, args.chunkSize)}

RECURSIVE readsOver(_, _)
\* the reads of the fragment length over a set of (chunk, position) pairs
readsOver(pairs, length) ==
    IF pairs = {} THEN 0
    ELSE LET x == CHOOSE y \in pairs : TRUE
         IN  num_reads(x[1][1], x[2], length) + readsOver(pairs \ {x}, length)

\* the pairs of the set whose GC can land in bin g
pairsInBin(pairs, length, g) ==
    {x \in pairs :
        g \in roundGCLenghtBias(countGC(x[1][1], x[2], x[2] + length), length)}

\* C5: after the reduce loop, for every fragment length sum(N_gc) is the number of
\* counted (chunk, position) pairs and sum(F_gc) the sum of their read counts,
\* whatever the order of the chunks; a bin holds no more than the pairs whose GC
\* can round to it.
C5_ExpectedCountsValidPositions ==
    (reduced /\ pc \in {"ratio", "interp", "done"}) =>
        \A k \in DOMAIN ndict :
            LET pairs == countedPairs(k) IN
            /\ npsum(ndict[k]) = Cardinality(pairs)
            /\ npsum(fdict[k]) = readsOver(pairs, k)
            /\ \A g \in Bins :
                 ndict[k][g] > 0 =>
                    /\ ndict[k][g] <= Cardinality(pairsInBin(pairs, k, g))
                    /\ fdict[k][g] <= readsOver(pairsInBin(pairs, k, g), k)

\* C5 witness: a finished reduce over several chunks where, for one fragment
\* length, a sampled position was dropped by the cap, one by the GC computation,
\* and others were counted with reads
C5_Witness ==
    /\ reduced
    /\ pc = "ratio"
    /\ Cardinality(returned) > 1
    /\ global_vars.extra_sampling_file.present
    /\ global_vars.filter_out.present
    /\ \E k \in DOMAIN ndict :
         /\ npsum(ndict[k]) > 1
         /\ npsum(fdict[k]) > 0
         /\ \E c \in mapReduce(global_vars.tbit, args.chunkSize) :
              \E j \in DOMAIN positionsOf(c, k) :
                 /\ j \notin countedAt(c, k)
                 /\ positionsOf(c, k)[j] + k <= chroms(c[1])


\* the intervals of a tree that the interval service reports for [start, end)
reported(t, chrom, start, end) ==
    IF t.present /\ chrom \in DOMAIN t.chroms
    THEN {iv \in Range(t.chroms[chrom]) : iv[1] < end /\ iv[2] > start}
    ELSE {}

\* {a, a + stepSize, ... < b}
strided(a, b, stepSize) == {p \in a..(b - 1) : (p - a) % stepSize = 0}

\* the positions the overlapping extra-sampling intervals add
extraSet(chrom, start, end, stepSize) ==
    UNION {strided(iv[1], iv[2], stepSize) :
              iv \in reported(global_vars.extra_sampling_file, chrom, start, end)}

\* the sample set before exclusion
sampleSet(chrom, start, end, stepSize) ==
    strided(start, end, stepSize) \cup extraSet(chrom, start, end, stepSize)

\* p lies in an exclude interval reported for [start, end)
excluded(p, chrom, start, end) ==
    \E iv \in reported(global_vars.filter_out, chrom, start, end) :
        iv[1] <= p /\ p < iv[2]

\* C6: a call of the sampler returns no position inside an exclude interval that
\* overlaps [start, end), and returns every position of the sample set (fixed
\* stride and extra sampling) that lies in no such interval.
C6_ExcludedPositionsRemoved ==
    sampler.state = "returned" =>
        /\ \A p \in Range(sampler.positions) :
              ~excluded(p, sampler.chrom, sampler.start, sampler.end)
        /\ \A p \in sampleSet(sampler.chrom, sampler.start, sampler.end, sampler.stepSize) :
              ~excluded(p, sampler.chrom, sampler.start, sampler.end)
                  => p \in Range(sampler.positions)

\* C6 witness: a returned call where an exclude interval removed a position that
\* only extra sampling had added, and kept others
C6_Witness ==
    /\ sampler.state = "returned"
    /\ sampler.positions # <<>>
    /\ \E p \in extraSet(sampler.chrom, sampler.start, sampler.end, sampler.stepSize) :
         /\ p \notin strided(sampler.start, sampler.end, sampler.stepSize)
         /\ excluded(p, sampler.chrom, sampler.start, sampler.end)
         /\ p \notin Range(sampler.positions)

\* C7: without exclude intervals the sampler returns a strictly ascending sequence
\* whose elements are the fixed-stride positions and the strided positions of every
\* overlapping extra-sampling interval; when the extra-sampling tree does not
\* know the chromosome it returns exactly the fixed-stride sequence.
C7_SampleSetSortedUnique ==
    (/\ sampler.state = "returned"
     /\ reported(global_vars.filter_out, sampler.chrom, sampler.start, sampler.end) = {}) =>
        /\ \A k \in 1..(Len(sampler.positions) - 1) :
              sampler.positions[k] < sampler.positions[k + 1]
        /\ Range(sampler.positions)
              = sampleSet(sampler.chrom, sampler.start, sampler.end, sampler.stepSize)
        /\ sampler.chrom \notin DOMAIN global_vars.extra_sampling_file.chroms
              => sampler.positions = arange(sampler.start, sampler.end, sampler.stepSize)

\* C7 witness: a returned call without exclude intervals where an extra-sampling
\* interval added a position between fixed-stride positions and repeated one
C7_Witness ==
    /\ sampler.state = "returned"
    /\ ~global_vars.filter_out.present
    /\ \E p \in extraSet(sampler.chrom, sampler.start, sampler.end, sampler.stepSize) :
         /\ p \notin strided(sampler.start, sampler.end, sampler.stepSize)
         /\ \E q \in strided(sampler.start, sampler.end, sampler.stepSize) : p < q
    /\ extraSet(sampler.chrom, sampler.start, sampler.end, sampler.stepSize)
          \cap strided(sampler.start, sampler.end, sampler.stepSize) # {}

\* C8: in direct mode, once get_ratio has been called on the merged tables, the
\* ratio table holds F/N * sum(N)/sum(F) where N > 0 and F > 0 and exactly 1
\* elsewhere, for every fragment length and bin (also for a fragment length whose
\* F_gc is all zero).
C8_DirectRatioTable ==
    (~args.interpolate /\ reduced /\ pc \in {"done", "error"}) =>
        /\ out_data.kind = "direct"
        /\ \A i \in DOMAIN ndict, x \in Bins :
              LET r == out_data.R_gc[i][x] IN
              IF ndict[i][x] > 0 /\ fdict[i][x] > 0
              THEN r[1] * (ndict[i][x] * npsum(fdict[i]))
                      = r[2] * (fdict[i][x] * npsum(ndict[i]))
              ELSE r = One

\* C9: a run that completes has written a complete table to the frequencies file;
\* a run that ends with an error has written neither the frequencies file nor
\* the measurement file.
C9_CompleteOrNothing ==
    /\ pc = "done" =>
          /\ files.GCbiasFrequenciesFile = "written"
          /\ out_data.kind # "none"
    /\ pc = "error" =>
          /\ files.GCbiasFrequenciesFile # "written"
          /\ files.MeasurementOutput # "written"

\* the worker sampling for a fragment length no shorter than its chunk
shortChunk(f) ==
    /\ f.state = "for_pos"
    /\ f.chunk[3] - fragmentLengthOf(f) <= f.chunk[2]

\* C10 as claimed: every call of the sampler with start > end fails, the calls the
\* worker makes with [start, end - L) on a chunk shorter than L included.
C10_SamplerRejectsInvertedRange ==
    /\ ~(sampler.state = "returned" /\ sampler.start > sampler.end)
    /\ \A w \in Processes :
          ~(worker[w].state = "for_pos"
            /\ worker[w].chunk[3] - fragmentLengthOf(worker[w]) < worker[w].chunk[2])

\* C10 amended: the worker entered with start > end fails before it samples and
\* the failure ends the run; the sampler itself makes no range check: called with
\* start >= end, as the worker calls it for a chunk no longer than the fragment
\* length, every position it returns comes from a reported extra-sampling
\* interval (none without such an interval), and the run goes on.
C10_WorkerRejectsInvertedRange ==
    /\ (pending = {} /\ sampler.start > sampler.end) =>
          /\ pc = "error"
          /\ returned = {}
          /\ \A w \in Processes : worker[w] = IdleFrame
    /\ (sampler.state = "returned" /\ sampler.start >= sampler.end) =>
          Range(sampler.positions)
              \subseteq extraSet(sampler.chrom, sampler.start, sampler.end, sampler.stepSize)
    /\ \A w \in Processes :
          shortChunk(worker[w]) =>
              /\ pc = "map"
              /\ Range(worker[w].positions)
                    \subseteq extraSet(worker[w].chunk[1], worker[w].chunk[2],
                                       worker[w].chunk[3] - fragmentLengthOf(worker[w]),
                                       args.stepSize)

\* C10 witness: the worker sampled [start, end - L) with end - L < start and got
\* positions from an extra-sampling interval, and the direct call has returned
C10_Witness ==
    /\ sampler.state = "returned"
    /\ shortChunk(worker[1])
    /\ worker[1].chunk[3] - fragmentLengthOf(worker[1]) < worker[1].chunk[2]
    /\ worker[1].positions # <<>>

\* the positions of the frame's loop that got past the chromosome-end guard: the
\* worker asked for their GC content and, when that worked, counted their reads
evaluated(f) ==
    IF f.state = "for_pos" THEN {f.positions[j] : j \in 1..(f.index - 1)} ELSE {}

\* C12: every position i the worker evaluates for a chunk [start, end) and a
\* fragment length L has start <= i and i + L <= end, also when extra-sampling
\* intervals overlapping the chunk reach before start or beyond end - L.
C12_EvaluatedInsideChunk ==
    \A w \in Processes :
        \A i \in evaluated(worker[w]) :
            /\ worker[w].chunk[2] <= i
            /\ i + fragmentLengthOf(worker[w]) <= worker[w].chunk[3]

\* the effective length of a fragment, where it has one: the absolute template
\* span of a paired fragment that is properly paired with its mate downstream,
\* the read's own length of an unpaired fragment
effectiveLengths(read) ==
    IF read.is_paired
    THEN IF read.is_proper_pair /\ read.next_reference_start > read.pos
         THEN {abs(read.template_length)}
         ELSE {}
    ELSE {read.query_length}

\* the fragments of the alignment file that start at i with effective length L
fragmentsAt(chrom, i, length) ==
    {k \in DOMAIN global_vars.bam :
        /\ global_vars.bam[k].chrom = chrom
        /\ global_vars.bam[k].pos = i
        /\ length \in effectiveLengths(global_vars.bam[k])}

\* the frame is at a position of its loop that reaches the read count
atCount(f) ==
    /\ f.state = "for_pos"
    /\ ~f.broke
    /\ f.index <= Len(f.positions)
    /\ reachesCount(f)

\* C13: at a sampled position i and fragment length L the worker's num_reads is
\* the number of fragments that start at i with effective length L (flags as
\* aligners write them: a properly paired read is a paired read): the iteration
\* adds exactly that number to F_gc and one to N_gc when it is below the cap
\* and counts a peak otherwise, so a paired fragment that is not properly
\* paired, or whose mate is not downstream, is counted for no L.
C13_NumReadsCountsEffectiveLength ==
    [][\A w \in Processes :
          (pc = "map" /\ atCount(worker[w]) /\ worker'[w] # worker[w]) =>
              LET f == worker[w]
                  n == Cardinality(fragmentsAt(f.chunk[1], f.positions[f.index],
                                               fragmentLengthOf(f)))
              IN  IF n >= global_vars.max_reads[fragmentLengthOf(f)]
                  THEN /\ worker'[w].peak = f.peak + 1
                       /\ worker'[w].subF_gc = f.subF_gc
                  ELSE /\ worker'[w].peak = f.peak
                       /\ \E gc \in gcChoices(f) :
                            /\ worker'[w].subF_gc = [f.subF_gc EXCEPT ![gc] = @ + n]
                            /\ worker'[w].sub_n_gc = [f.sub_n_gc EXCEPT ![gc] = @ + 1]]_vars

\* C13 witness: the iteration just done was at a position where a properly paired
\* fragment with its mate downstream was counted for L while a paired fragment of
\* the same span that is not properly paired, and an unpaired read of another
\* length, were not
C13_Witness ==
    \E w \in Processes :
        LET f == worker[w] IN
        /\ f.state = "for_pos"
        /\ f.index > 1
        /\ atCount([f EXCEPT !.index = f.index - 1])
        /\ LET i == f.positions[f.index - 1]
               L == fragmentLengthOf(f)
               here == {k \in DOMAIN global_vars.bam :
                           /\ global_vars.bam[k].chrom = f.chunk[1]
                           /\ global_vars.bam[k].pos = i}
           IN  /\ Cardinality(fragmentsAt(f.chunk[1], i, L)) = 1
               /\ npsum(f.subF_gc) >= 1
               /\ \E k \in fragmentsAt(f.chunk[1], i, L) : global_vars.bam[k].is_paired
               /\ \E k \in here \ fragmentsAt(f.chunk[1], i, L) :
                     /\ global_vars.bam[k].is_paired
                     /\ abs(global_vars.bam[k].template_length) = L
               /\ \E k \in here \ fragmentsAt(f.chunk[1], i, L) :
                     ~global_vars.bam[k].is_paired

\* in every bin of the pair of histograms of fragment length L: observed counts
\* only where there are expected counts, and at most max_reads[L] - 1 per
\* expected count
boundedBy(N, F, length) ==
    \A g \in Bins :
        F[g] > 0 =>
            /\ N[g] > 0
            /\ F[g] <= (global_vars.max_reads[length] - 1) * N[g]

\* boundedBy for every fragment length of a pair of dictionaries
dictBounded(Nd, Fd) ==
    \A k \in DOMAIN Fd : k \in DOMAIN Nd /\ boundedBy(Nd[k], Fd[k], k)

\* C16: in every partial table a worker returns and in the global table after
\* any number of merges, for every fragment length L and bin g (max_reads[L] an
\* integer >= 1): F_gc[L][g] > 0 implies N_gc[L][g] > 0, and
\* F_gc[L][g] <= (max_reads[L] - 1) * N_gc[L][g].
C16_ObservedBoundedByExpected ==
    /\ \A r \in returned : dictBounded(r.subN_gc, r.subF_gc)
    /\ dictBounded(ndict, fdict)
    /\ \A w \in Processes :
          /\ dictBounded(worker[w].sub_Ndict, worker[w].sub_Fdict)
          /\ worker[w].state = "for_pos" =>
                boundedBy(worker[w].sub_n_gc, worker[w].subF_gc,
                          fragmentLengthOf(worker[w]))

\* C16 witness: the merged table of several partial tables holds a bin with
\* several expected counts whose observed count is positive, and a bin whose
\* observed count is exactly (max_reads[L] - 1) times its expected count, while
\* a capped position was left out of a partial table
C16_Witness ==
    /\ pc = "ratio"
    /\ reduced
    /\ Cardinality(returned) > 1
    /\ \E k \in DOMAIN ndict, g \in Bins : ndict[k][g] > 1 /\ fdict[k][g] > 0
    /\ \E k \in DOMAIN ndict, g \in Bins :
         /\ fdict[k][g] > 0
         /\ fdict[k][g] = (global_vars.max_reads[k] - 1) * ndict[k][g]
    /\ \E c \in mapReduce(global_vars.tbit, args.chunkSize), k \in DOMAIN ndict :
         \E j \in DOMAIN positionsOf(c, k) :
            /\ positionsOf(c, k)[j] + k <= chroms(c[1])
            /\ num_reads(c[1], positionsOf(c, k)[j], k) >= global_vars.max_reads[k]

\* C11: in interpolation mode each of the three tables interpolate_ratio_csaps
\* returns has exactly one row for every integer fragment length in
\* [minLength, maxLength] and a value for every GC bin 0..100, also when
\* maxLength - minLength is not a multiple of lengthStep.
C11_DenseRowsCoverRange ==
    out_data.kind = "interpolated" =>
        \A t \in {"N_gc", "F_gc", "R_gc"} :
            /\ DOMAIN out_data[t] = args.minLength..args.maxLength
            /\ \A i \in DOMAIN out_data[t] : DOMAIN out_data[t][i] = Bins

\* C14: in interpolation mode, for every dense fragment length L and bin g where
\* both evaluated surfaces are positive the ratio is
\* evaluated F / evaluated N * scaling[L] with scaling[L] the exact quotient
\* sum(evaluated N row) / sum(evaluated F row), and it is 1 in every other cell.
C14_InterpolatedRatioExact ==
    out_data.kind = "interpolated" =>
        \A i \in DOMAIN out_data.R_gc, gc \in Bins :
            LET n == evalNum(fitted.N_f2, i, gc)
                f == evalNum(fitted.F_f2, i, gc)
                r == out_data.R_gc[i][gc]
            IN  IF n > 0 /\ f > 0
                THEN r[1] * (n * rowSumNum(fitted.F_f2, i))
                        = r[2] * (f * rowSumNum(fitted.N_f2, i))
                ELSE r = One

\* the dense fragment lengths whose evaluated F row sums to zero
zeroRows == {i \in denseLengths(ndict) : rowSumNum(fitted.F_f2, i) = 0}

\* the dense fragment lengths with a valid denominator that are nearest to i
nearestValid(i) ==
    LET valid == denseLengths(ndict) \ zeroRows
    IN  {j \in valid : \A k \in valid : abs(j - i) <= abs(k - i)}

\* C15: in interpolation mode, when the evaluated F row of a dense fragment length
\* sums to zero the estimation still completes, and the scaling of that length is
\* the scaling of the nearest fragment length whose denominator is valid.
C15_ZeroObservedRowFallsBack ==
    (fitted.state = "fitted" /\ zeroRows # {}) =>
        /\ pc = "done"
        /\ out_data.kind = "interpolated"
        /\ \A i \in zeroRows :
              /\ i \in DOMAIN fitted.scaling_dict
              /\ nearestValid(i) # {} =>
                    \E j \in nearestValid(i) :
                        fitted.scaling_dict[i] = fitted.scaling_dict[j]

====
